---- MODULE Spec2Model ----
(***************************************************************************)
(* Circulation engine of the library application: loan issuance and return *)
(* processing over the Books, Members, Loans and Returns tables.           *)
(*                                                                         *)
(* The repository holds two variants of the engine:                        *)
(*   task03  process_loan / process_return  (task03/src/loan.c, book.c)    *)
(*   task04  loan_book / return_book        (task04/src/loan.c)            *)
(* The variable impl selects the variant a behaviour runs.                 *)
(*                                                                         *)
(* Time is counted in ticks of 24/TicksPerDay hours since an epoch at      *)
(* midnight UTC.  A calendar date is a day number.  The local date is the  *)
(* day of localtime(now), the date SQLite's julianday('now') sees is the   *)
(* UTC instant itself.                                                     *)
(***************************************************************************)
EXTENDS Integers, Sequences, FiniteSets, TLC

\* ---- program constants -------------------------------------------------
DEFAULT_LOAN_PERIOD == 14
SUSPENSION_MULTIPLIER == 2

\* ---- bounds of the model -----------------------------------------------
MaxBooks == 1
MaxMembers == 1
MaxLoans == 2
MaxQty == 2
MaxDay == 3
MaxFaults == 2
TicksPerDay == 2

Impls == {"task03", "task04"}
\* local time zone offsets in ticks: west of UTC, UTC, east of UTC
TzOffsets == {0 - 1, 0, 1}
\* loan periods a caller passes (0: "use the default")
Periods == {0, 1}
\* add_book stores whatever integer it is given
Quantities == (0 - 1)..MaxQty
FirstTick == TicksPerDay
LastTick == (MaxDay + 1) * TicksPerDay - 1
\* the instants (UTC ticks) at which a zone that observes it is on daylight
\* saving time; the clocks are then one tick ahead
DstTicks == (2 * TicksPerDay)..(3 * TicksPerDay - 1)

VARIABLES
    impl,       \* variant of the engine
    tz,         \* offset of local standard time from UTC, in ticks
    dst,        \* the local zone observes daylight saving time
    out,        \* what the last query or date function returned
    now,        \* current instant (UTC), in ticks
    books,      \* Books table: book_id -> [quantity, available]
    members,    \* Members table: member_id -> [penalty_days]
    loans,      \* Loans table: loan_id -> [book_id, member_id, loan_date, due_date, is_returned]
    returns,    \* Returns table: return_id -> [loan_id, return_date, overdue_days]
    inTxn,      \* the connection has an open transaction
    saved,      \* the tables as of BEGIN, restored by ROLLBACK
    nfaults,    \* storage faults injected so far
    callers,    \* concurrent callers: caller -> [pc, book_id, member_id, writer, ret, err]
    last,       \* the last call and what it reported to its caller
    seq         \* sqlite_sequence: the highest id AUTOINCREMENT has given out, per table

vars == <<impl, tz, dst, out, seq, now, books, members, loans, returns, inTxn, saved, nfaults, callers, last>>

\* ---- helpers -------------------------------------------------------------
Max(a, b) == IF a >= b THEN a ELSE b

SetMax(S) == CHOOSE x \in S : \A y \in S : y <= x

NoSave == [books |-> <<>>, members |-> <<>>, loans |-> <<>>, returns |-> <<>>]

Tables(bk, mb, ln, rt) == [books |-> bk, members |-> mb, loans |-> ln, returns |-> rt]

NoCall == [op |-> "none", ret |-> 0, err |-> "None"]

NoOut == <<>>

\* sqlite_sequence of a new database
NoSeq == [books |-> 0, members |-> 0]

Call(op, ret, err) == [op |-> op, ret |-> ret, err |-> err]

\* ---- date arithmetic -----------------------------------------------------
\* C integer division truncates toward zero
CDiv(a, b) == IF a >= 0 THEN a \div b ELSE 0 - ((0 - a) \div b)

\* tm_isdst of the instant t
IsDst(t) == IF dst /\ t \in DstTicks THEN 1 ELSE 0

\* localtime: the wall clock (in ticks) of the instant t
localtime(t) == t + tz + IsDst(t)

\* mktime: the instant of the wall clock w read with the given tm_isdst; a
\* tm_isdst that is not in effect at w is honoured all the same
mktime(w, isdst) == w - tz - isdst

\* the calendar date of a wall clock
DateOf(w) == w \div TicksPerDay

\* the wall clock of a date parsed by sscanf into a zeroed struct tm: midnight
Midnight(date) == date * TicksPerDay

\* get_current_date: strftime of localtime(time(NULL))
get_current_date == DateOf(localtime(now))

\* add_days_to_date: mktime of the date (tm_isdst = 0), plus days * 86400
\* seconds, localtime
add_days_to_date(date, days) ==
    DateOf(localtime(mktime(Midnight(date), 0) + days * TicksPerDay))

\* calculate_date_diff: (mktime(date2) - mktime(date1)) / 86400, tm_isdst = 0
calculate_date_diff(date1, date2) ==
    CDiv(mktime(Midnight(date2), 0) - mktime(Midnight(date1), 0), TicksPerDay)

\* get_date_string: localtime, tm_mday += days_to_add, mktime normalises the
\* struct with the tm_isdst of now, strftime
get_date_string(days_to_add) ==
    DateOf(localtime(mktime(localtime(now) + days_to_add * TicksPerDay, IsDst(now))))

\* date_difference: (int)difftime(mktime(date2), mktime(date1)) / 86400, tm_isdst = 0
date_difference(date1, date2) ==
    CDiv(mktime(Midnight(date2), 0) - mktime(Midnight(date1), 0), TicksPerDay)

\* mutant: a negative difference is not clamped
calculate_overdue_days_unclamped(due_date, return_date) ==
    date_difference(due_date, return_date)

\* calculate_overdue_days with a non-NULL return date
calculate_overdue_days(due_date, return_date) ==
    LET days == date_difference(due_date, return_date)
    IN  IF days > 0 THEN days ELSE 0

calculate_suspension_days(overdue_days) == overdue_days * SUSPENSION_MULTIPLIER

\* ---- the connection and its transaction ----------------------------------
\* A handler works on the connection state [t: tables, in: a transaction is
\* open, sv: tables as of its BEGIN] and reports [c, ret, err].
Conn(t, in, sv) == [t |-> t, in |-> in, sv |-> sv]

Result(c, ret, err) == [c |-> c, ret |-> ret, err |-> err]

\* Storage fault of one call: the one step of its effect phase that fails.
\* "begin": BEGIN fails; "insert", "flag", "update", "penalty": that statement
\* fails; "commit_rb": COMMIT fails and SQLite rolls the transaction back;
\* "commit_open": COMMIT fails with the transaction left open (SQLITE_BUSY).
Faults == {"none", "begin", "insert", "flag", "update", "penalty", "commit_rb", "commit_open"}

FaultCount(F) == IF F = "none" THEN 0 ELSE 1

\* sqlite3_exec "BEGIN TRANSACTION": an error inside an open transaction
BeginOk(c, F) == F # "begin" /\ ~c.in

BeginTxn(c, F) == IF BeginOk(c, F) THEN Conn(c.t, TRUE, c.t) ELSE c

\* sqlite3_exec "ROLLBACK": an error (and no effect) without a transaction
RollbackTxn(c) == IF c.in THEN Conn(c.sv, FALSE, NoSave) ELSE c

\* sqlite3_exec "COMMIT"
CommitOk(c, F) == c.in /\ F \notin {"commit_rb", "commit_open"}

CommitTxn(c, F) ==
    IF ~c.in THEN c
    ELSE IF F = "commit_rb" THEN RollbackTxn(c)
    ELSE IF F = "commit_open" THEN c
    ELSE Conn(c.t, FALSE, NoSave)

\* ---- catalog accessors (task03/src/book.c) -------------------------------
\* mutant: a book that does not exist is reported as not available
check_book_availability_missing(t, book_id) ==
    IF book_id \in DOMAIN t.books
    THEN (IF t.books[book_id].available > 0 THEN 1 ELSE 0)
    ELSE 0

\* 1 available, 0 not available, -1 no such book
check_book_availability(t, book_id) ==
    IF book_id \in DOMAIN t.books
    THEN (IF t.books[book_id].available > 0 THEN 1 ELSE 0)
    ELSE 0 - 1

\* UPDATE Books SET available = available + change; -1 when no row changed
update_book_availability_ok(t, book_id) == book_id \in DOMAIN t.books

\* mutant: the UPDATE has no WHERE clause
update_book_availability_all(t, book_id, change) ==
    IF book_id \in DOMAIN t.books
    THEN [t EXCEPT !.books = [b \in DOMAIN t.books |->
                                 [t.books[b] EXCEPT !.available = @ + change]]]
    ELSE t

update_book_availability(t, book_id, change) ==
    IF book_id \in DOMAIN t.books
    THEN [t EXCEPT !.books[book_id].available = @ + change]
    ELSE t

\* a table without the row of the given id
Remove(table, id) == [i \in DOMAIN table \ {id} |-> table[i]]

\* the FOREIGN KEY of Loans(book_id) stops the DELETE of a referenced book
BookReferenced(t, book_id) == \E l \in DOMAIN t.loans : t.loans[l].book_id = book_id

\* mutant: foreign keys are not enforced
delete_book_ok_unenforced(t, book_id) == book_id \in DOMAIN t.books

\* delete_book succeeds: the DELETE is done and changed a row
delete_book_ok(t, book_id) == book_id \in DOMAIN t.books /\ ~BookReferenced(t, book_id)

\* DELETE FROM Books WHERE book_id = ?
delete_book(t, book_id) ==
    IF delete_book_ok(t, book_id) THEN [t EXCEPT !.books = Remove(t.books, book_id)] ELSE t

\* SELECT COUNT(*) FROM Loans WHERE member_id = ?
loan_count(t, member_id) == Cardinality({l \in DOMAIN t.loans : t.loans[l].member_id = member_id})

\* delete_member succeeds: no loan history; a DELETE that finds no row is a
\* success too
delete_member_ok(t, member_id) == loan_count(t, member_id) = 0

\* DELETE FROM Members WHERE member_id = ?
delete_member(t, member_id) ==
    IF delete_member_ok(t, member_id) /\ member_id \in DOMAIN t.members
    THEN [t EXCEPT !.members = Remove(t.members, member_id)]
    ELSE t

\* loans of the member that have no Returns row
UnreturnedLoans(t, member_id) ==
    {i \in DOMAIN t.loans :
        /\ t.loans[i].member_id = member_id
        /\ \A r \in DOMAIN t.returns : t.returns[r].loan_id # i}

\* mutant: the difference is taken the other way round
check_member_overdue_reversed(t, member_id) ==
    LET open == UnreturnedLoans(t, member_id)
    IN  IF open = {} THEN 0
        ELSE LET days == SetMax({t.loans[i].due_date * TicksPerDay - now : i \in open})
             IN  IF days > 0 THEN days \div TicksPerDay ELSE 0

\* MAX(julianday('now') - julianday(due_date)), truncated to int when positive
check_member_overdue(t, member_id) ==
    LET open == UnreturnedLoans(t, member_id)
    IN  IF open = {} THEN 0
        ELSE LET days == SetMax({now - t.loans[i].due_date * TicksPerDay : i \in open})
             IN  IF days > 0 THEN days \div TicksPerDay ELSE 0

can_member_borrow(t, member_id) ==
    IF check_member_overdue(t, member_id) > 0 THEN 0 ELSE 1

\* mutant: the flag is not written
mark_returned_skipped(t, loan_id) == t

\* UPDATE Loans SET is_returned = 1 WHERE loan_id = ?
mark_returned(t, loan_id) == [t EXCEPT !.loans[loan_id].is_returned = 1]

\* mutant: the check is missing
already_returned_unchecked(loan) == FALSE

\* if (loan.is_returned)
already_returned(loan) == loan.is_returned # 0

\* ---- task03: process_loan / process_return --------------------------------
\* FOREIGN KEY (book_id), (member_id) of Loans, enforced by PRAGMA foreign_keys
LoanFkOk(t, book_id, member_id) ==
    book_id \in DOMAIN t.books /\ member_id \in DOMAIN t.members

LoanRow(book_id, member_id, loan_date, due_date) ==
    [book_id |-> book_id, member_id |-> member_id, loan_date |-> loan_date,
     due_date |-> due_date, is_returned |-> 0]

ReturnRow(loan_id, return_date, overdue_days) ==
    [loan_id |-> loan_id, return_date |-> return_date, overdue_days |-> overdue_days]

process_loan(c, book_id, member_id, loan_period_in, F) ==
    LET loan_period == IF loan_period_in <= 0 THEN DEFAULT_LOAN_PERIOD ELSE loan_period_in
    IN
    IF can_member_borrow(c.t, member_id) = 0 THEN Result(c, 0 - 1, "MemberSuspended")
    ELSE IF check_book_availability(c.t, book_id) = 0 THEN Result(c, 0 - 1, "BookUnavailable")
    ELSE
    LET loan_date == get_current_date
        due_date == add_days_to_date(loan_date, loan_period)
        c1 == BeginTxn(c, F)
    IN
    IF F = "insert" \/ ~LoanFkOk(c1.t, book_id, member_id)
    THEN Result(RollbackTxn(c1), 0 - 1, "StorageFailure")
    ELSE
    LET c2 == [c1 EXCEPT !.t.loans = Append(@, LoanRow(book_id, member_id, loan_date, due_date))]
        loan_id == Len(c2.t.loans)
    IN
    IF F = "update" \/ ~update_book_availability_ok(c2.t, book_id)
    THEN Result(RollbackTxn(c2), 0 - 1, "StorageFailure")
    ELSE
    LET c3 == [c2 EXCEPT !.t = update_book_availability(@, book_id, 0 - 1)]
    IN  Result(CommitTxn(c3, F), loan_id, "None")

process_return(c, loan_id, F) ==
    IF loan_id \notin DOMAIN c.t.loans THEN Result(c, 0 - 1, "NotFound")
    ELSE
    LET loan == c.t.loans[loan_id] IN
    IF already_returned(loan) THEN Result(c, 0 - 1, "AlreadyReturned")
    ELSE
    LET return_date == get_current_date
        diff == calculate_date_diff(loan.due_date, return_date)
        overdue_days == IF diff < 0 THEN 0 ELSE diff
        c1 == BeginTxn(c, F)
    IN
    IF F = "insert" THEN Result(RollbackTxn(c1), 0 - 1, "StorageFailure")
    ELSE
    LET c2 == [c1 EXCEPT !.t.returns = Append(@, ReturnRow(loan_id, return_date, overdue_days))]
        return_id == Len(c2.t.returns)
    IN
    IF F = "flag" THEN Result(RollbackTxn(c2), 0 - 1, "StorageFailure")
    ELSE
    LET c3 == [c2 EXCEPT !.t = mark_returned(@, loan_id)] IN
    IF F = "update" \/ ~update_book_availability_ok(c3.t, loan.book_id)
    THEN Result(RollbackTxn(c3), 0 - 1, "StorageFailure")
    ELSE
    LET c4 == [c3 EXCEPT !.t = update_book_availability(@, loan.book_id, 1)]
    IN  Result(CommitTxn(c4, F), return_id, "None")

\* mutant: the is_returned test is missing
check_loan_overdue_any(t, loan_id) ==
    IF loan_id \notin DOMAIN t.loans THEN [ret |-> 0 - 1, overdue_days |-> 0]
    ELSE LET days == calculate_date_diff(t.loans[loan_id].due_date, get_current_date)
         IN  IF days > 0 THEN [ret |-> 1, overdue_days |-> days]
             ELSE [ret |-> 0, overdue_days |-> 0]

\* check_loan_overdue: [ret, overdue_days]; on failure *overdue_days is not
\* written (shown as 0)
check_loan_overdue(t, loan_id) ==
    IF loan_id \notin DOMAIN t.loans THEN [ret |-> 0 - 1, overdue_days |-> 0]
    ELSE IF t.loans[loan_id].is_returned # 0 THEN [ret |-> 0, overdue_days |-> 0]
    ELSE LET days == calculate_date_diff(t.loans[loan_id].due_date, get_current_date)
         IN  IF days > 0 THEN [ret |-> 1, overdue_days |-> days]
             ELSE [ret |-> 0, overdue_days |-> 0]

\* ---- task04: loan_book / return_book ---------------------------------------
\* mutant: a book with no copy left counts as available
is_book_available_any(t, book_id) ==
    IF book_id \in DOMAIN t.books
    THEN (IF t.books[book_id].available >= 0 THEN 1 ELSE 0)
    ELSE 0 - 1

is_book_available(t, book_id) ==
    IF book_id \in DOMAIN t.books
    THEN (IF t.books[book_id].available > 0 THEN 1 ELSE 0)
    ELSE 0 - 1

\* member module of task04: SELECT penalty_days of the member
check_penalty_status_ok(t, member_id) == member_id \in DOMAIN t.members

check_penalty_status(t, member_id) == t.members[member_id].penalty_days

\* member module of task04: UPDATE Members (penalty_days)
record_penalty(t, member_id, penalty_days) ==
    [t EXCEPT !.members[member_id].penalty_days = penalty_days]

is_member_eligible_to_loan(t, member_id) ==
    IF ~check_penalty_status_ok(t, member_id) THEN 0 - 1
    ELSE IF check_penalty_status(t, member_id) <= 0 THEN 1 ELSE 0

loan_book(c, book_id, member_id, loan_days, F) ==
    IF is_book_available(c.t, book_id) # 1 THEN Result(c, 0 - 1, "BookUnavailable")
    ELSE IF is_member_eligible_to_loan(c.t, member_id) # 1
    THEN Result(c, 0 - 1, "MemberSuspended")
    ELSE
    LET loan_date == get_date_string(0)
        due_date == get_date_string(loan_days)
    IN
    IF ~BeginOk(c, F) THEN Result(c, 0 - 1, "StorageFailure")
    ELSE
    LET c1 == BeginTxn(c, F) IN
    IF F = "insert" THEN Result(RollbackTxn(c1), 0 - 1, "StorageFailure")
    ELSE
    LET c2 == [c1 EXCEPT !.t.loans = Append(@, LoanRow(book_id, member_id, loan_date, due_date))]
    IN
    IF F = "update" THEN Result(RollbackTxn(c2), 0 - 1, "StorageFailure")
    ELSE
    LET c3 == [c2 EXCEPT !.t = update_book_availability(@, book_id, 0 - 1)] IN
    IF ~CommitOk(c3, F) THEN Result(RollbackTxn(CommitTxn(c3, F)), 0 - 1, "StorageFailure")
    ELSE Result(CommitTxn(c3, F), 0, "None")

return_book(c, loan_id, F) ==
    IF loan_id \notin DOMAIN c.t.loans THEN Result(c, 0 - 1, "NotFound")
    ELSE
    LET loan == c.t.loans[loan_id] IN
    IF already_returned(loan) THEN Result(c, 0 - 1, "AlreadyReturned")
    ELSE
    LET return_date == get_date_string(0) IN
    IF ~BeginOk(c, F) THEN Result(c, 0 - 1, "StorageFailure")
    ELSE
    LET c1 == BeginTxn(c, F)
        days_overdue == calculate_overdue_days(loan.due_date, return_date)
    IN
    IF F = "flag" THEN Result(RollbackTxn(c1), 0 - 1, "StorageFailure")
    ELSE
    LET c2 == [c1 EXCEPT !.t = mark_returned(@, loan_id)] IN
    IF F = "insert" THEN Result(RollbackTxn(c2), 0 - 1, "StorageFailure")
    ELSE
    LET c3 == [c2 EXCEPT !.t.returns = Append(@, ReturnRow(loan_id, return_date, days_overdue))]
    IN
    IF F = "update" THEN Result(RollbackTxn(c3), 0 - 1, "StorageFailure")
    ELSE
    LET c4 == [c3 EXCEPT !.t = update_book_availability(@, loan.book_id, 1)] IN
    IF days_overdue > 0 /\ (F = "penalty" \/ ~check_penalty_status_ok(c4.t, loan.member_id))
    THEN Result(RollbackTxn(c4), 0 - 1, "StorageFailure")
    ELSE
    LET c5 == IF days_overdue > 0
              THEN [c4 EXCEPT !.t = record_penalty(@, loan.member_id, days_overdue * 2)]
              ELSE c4
    IN
    IF ~CommitOk(c5, F) THEN Result(RollbackTxn(CommitTxn(c5, F)), 0 - 1, "StorageFailure")
    ELSE Result(CommitTxn(c5, F), 0, "None")

\* ---- the engine as used by its callers ------------------------------------
issue_loan(c, book_id, member_id, period, F) ==
    IF impl = "task03" THEN process_loan(c, book_id, member_id, period, F)
    ELSE loan_book(c, book_id, member_id, period, F)

return_loan(c, loan_id, F) ==
    IF impl = "task03" THEN process_return(c, loan_id, F)
    ELSE return_book(c, loan_id, F)

Cur == Conn(Tables(books, members, loans, returns), inTxn, saved)

\* the connection state a call leaves behind
Leaves(c) ==
    /\ books' = c.t.books
    /\ members' = c.t.members
    /\ loans' = c.t.loans
    /\ returns' = c.t.returns
    /\ inTxn' = c.in
    /\ saved' = c.sv

\* ---- state machine ---------------------------------------------------------
Init ==
    /\ impl \in Impls
    /\ tz \in TzOffsets
    /\ dst \in BOOLEAN /\ (dst => tz = 0)
    /\ now = FirstTick
    /\ books = <<>>
    /\ members = <<>>
    /\ loans = <<>>
    /\ returns = <<>>
    /\ inTxn = FALSE
    /\ saved = NoSave
    /\ nfaults = 0
    /\ callers = <<>>
    /\ last = NoCall
    /\ out = NoOut
    /\ seq = NoSeq

\* the clock advances
Tick ==
    /\ now < LastTick
    /\ now' = now + 1
    /\ last' = Call("tick", 0, "None")
    /\ UNCHANGED <<impl, tz, dst, out, seq, books, members, loans, returns, inTxn, saved, nfaults, callers>>

\* add_book: INSERT INTO Books (..., quantity, available) VALUES (..., q, q)
AddBook ==
    \E quantity \in Quantities :
        /\ Len(books) < MaxBooks
        /\ books' = Append(books, [quantity |-> quantity, available |-> quantity])
        /\ seq' = [seq EXCEPT !.books = @ + 1]
        /\ last' = Call("add_book", 0, "None")
        /\ UNCHANGED <<impl, tz, dst, out, now, members, loans, returns, inTxn, saved, nfaults, callers>>

\* add_member: INSERT INTO Members
AddMember ==
    /\ Len(members) < MaxMembers
    /\ members' = Append(members, [penalty_days |-> 0])
    /\ seq' = [seq EXCEPT !.members = @ + 1]
    /\ last' = Call("add_member", 0, "None")
    /\ UNCHANGED <<impl, tz, dst, out, now, books, loans, returns, inTxn, saved, nfaults, callers>>

BookIds == 1..(MaxBooks + 1)
MemberIds == 1..(MaxMembers + 1)
LoanIds == 1..(MaxLoans + 1)

\* one call of issue_loan with the storage fault F
IssueLoanCall(book_id, member_id, period, F) ==
    /\ Len(loans) < MaxLoans
    /\ nfaults + FaultCount(F) <= MaxFaults
    /\ nfaults' = nfaults + FaultCount(F)
    /\ LET r == issue_loan(Cur, book_id, member_id, period, F)
       IN  /\ Leaves(r.c)
           /\ last' = Call("issue_loan", r.ret, r.err)
    /\ UNCHANGED <<impl, tz, dst, out, seq, now, callers>>

IssueLoan ==
    \E book_id \in BookIds, member_id \in MemberIds, period \in Periods, F \in Faults :
        IssueLoanCall(book_id, member_id, period, F)

\* one call of return_loan with the storage fault F
ReturnLoanCall(loan_id, F) ==
    /\ nfaults + FaultCount(F) <= MaxFaults
    /\ nfaults' = nfaults + FaultCount(F)
    /\ LET r == return_loan(Cur, loan_id, F)
       IN  /\ Leaves(r.c)
           /\ last' = Call("return_loan", r.ret, r.err)
    /\ UNCHANGED <<impl, tz, dst, out, seq, now, callers>>

ReturnLoan == \E loan_id \in LoanIds, F \in Faults : ReturnLoanCall(loan_id, F)

Next == Tick \/ AddBook \/ AddMember \/ IssueLoan \/ ReturnLoan

Spec == Init /\ [][Next]_vars

\* ---- concurrent callers of issue_loan ---------------------------------------
\* Each caller runs process_loan (task03) or loan_book (task04) on a connection
\* of its own to the same database file, one statement per step.  inTxn says
\* that some caller holds the database's write lock, saved holds the committed
\* tables while it does, and callers[p].writer says that p is the holder.
NCallers == 2

FirstPc == IF impl = "task03" THEN "check_member" ELSE "check_book"

NewCaller(book_id, member_id) ==
    [pc |-> "start", book_id |-> book_id, member_id |-> member_id,
     writer |-> FALSE, ret |-> 0, err |-> "None"]

\* the tables a caller's connection reads: the committed ones unless it is the writer
View(p) ==
    IF inTxn /\ ~callers[p].writer THEN saved ELSE Tables(books, members, loans, returns)

Finish(p, ret, err) ==
    callers' = [callers EXCEPT ![p].pc = "done", ![p].writer = FALSE,
                               ![p].ret = ret, ![p].err = err]

Goto(p, pc) == callers' = [callers EXCEPT ![p].pc = pc]

InitConc ==
    /\ impl \in Impls
    /\ tz \in TzOffsets
    /\ dst \in BOOLEAN /\ (dst => tz = 0)
    /\ now = FirstTick
    /\ \E quantity \in 1..MaxQty :
           books = <<[quantity |-> quantity, available |-> quantity]>>
    /\ members = [m \in 1..NCallers |-> [penalty_days |-> 0]]
    /\ loans = <<>>
    /\ returns = <<>>
    /\ inTxn = FALSE
    /\ saved = NoSave
    /\ nfaults = 0
    /\ callers \in [1..NCallers -> {NewCaller(1, m) : m \in 1..NCallers}]
    /\ last = NoCall
    /\ out = NoOut
    /\ seq = [books |-> 1, members |-> NCallers]

\* the call is made
EnterStep(p) ==
    /\ callers[p].pc = "start"
    /\ Goto(p, FirstPc)
    /\ UNCHANGED <<impl, tz, dst, out, seq, now, books, members, loans, returns, inTxn, saved, nfaults, last>>

\* can_member_borrow (task03) / is_member_eligible_to_loan (task04)
CheckMemberStep(p) ==
    /\ callers[p].pc = "check_member"
    /\ LET eligible == IF impl = "task03"
                       THEN can_member_borrow(View(p), callers[p].member_id) # 0
                       ELSE is_member_eligible_to_loan(View(p), callers[p].member_id) = 1
       IN  IF eligible
           THEN Goto(p, IF impl = "task03" THEN "check_book" ELSE "begin")
           ELSE Finish(p, 0 - 1, "MemberSuspended")
    /\ UNCHANGED <<impl, tz, dst, out, seq, now, books, members, loans, returns, inTxn, saved, nfaults, last>>

\* check_book_availability (task03) / is_book_available (task04)
CheckBookStep(p) ==
    /\ callers[p].pc = "check_book"
    /\ LET available == IF impl = "task03"
                        THEN check_book_availability(View(p), callers[p].book_id) # 0
                        ELSE is_book_available(View(p), callers[p].book_id) = 1
       IN  IF available
           THEN Goto(p, IF impl = "task03" THEN "begin" ELSE "check_member")
           ELSE Finish(p, 0 - 1, "BookUnavailable")
    /\ UNCHANGED <<impl, tz, dst, out, seq, now, books, members, loans, returns, inTxn, saved, nfaults, last>>

\* BEGIN TRANSACTION (deferred: takes no lock)
BeginStep(p) ==
    /\ callers[p].pc = "begin"
    /\ Goto(p, "insert")
    /\ UNCHANGED <<impl, tz, dst, out, seq, now, books, members, loans, returns, inTxn, saved, nfaults, last>>

\* INSERT INTO Loans: takes the write lock, SQLITE_BUSY when another caller
\* holds it; the failure path rolls back and returns -1
InsertStep(p) ==
    /\ callers[p].pc = "insert"
    /\ IF inTxn
       THEN /\ Finish(p, 0 - 1, "StorageFailure")
            /\ UNCHANGED <<loans, inTxn, saved>>
       ELSE /\ inTxn' = TRUE
            /\ saved' = Tables(books, members, loans, returns)
            /\ loans' = Append(loans, LoanRow(callers[p].book_id, callers[p].member_id,
                                              get_current_date,
                                              add_days_to_date(get_current_date, DEFAULT_LOAN_PERIOD)))
            /\ callers' = [callers EXCEPT ![p].pc = "update", ![p].writer = TRUE]
    /\ UNCHANGED <<impl, tz, dst, out, seq, now, books, members, returns, nfaults, last>>

\* UPDATE Books SET available = available - 1
UpdateStep(p) ==
    /\ callers[p].pc = "update"
    /\ books' = update_book_availability(Tables(books, members, loans, returns),
                                         callers[p].book_id, 0 - 1).books
    /\ Goto(p, "commit")
    /\ UNCHANGED <<impl, tz, dst, out, seq, now, members, loans, returns, inTxn, saved, nfaults, last>>

\* COMMIT: publishes the writes and releases the lock
CommitStep(p) ==
    /\ callers[p].pc = "commit"
    /\ inTxn' = FALSE
    /\ saved' = NoSave
    /\ Finish(p, IF impl = "task03" THEN Len(loans) ELSE 0, "None")
    /\ UNCHANGED <<impl, tz, dst, out, seq, now, books, members, loans, returns, nfaults, last>>

Enter == \E p \in DOMAIN callers : EnterStep(p)
CheckMember == \E p \in DOMAIN callers : CheckMemberStep(p)
CheckBook == \E p \in DOMAIN callers : CheckBookStep(p)
Begin == \E p \in DOMAIN callers : BeginStep(p)
Insert == \E p \in DOMAIN callers : InsertStep(p)
Update == \E p \in DOMAIN callers : UpdateStep(p)
Commit == \E p \in DOMAIN callers : CommitStep(p)

NextConc == Enter \/ CheckMember \/ CheckBook \/ Begin \/ Insert \/ Update \/ Commit

SpecConc == InitConc /\ [][NextConc]_vars

\* ---- concurrent callers of return_loan --------------------------------------
\* Each caller runs process_return (task03) or return_book (task04) for the
\* same loan on a connection of its own, one statement per step; loan is the
\* caller's copy of the Loan row it read.
NewReturner(loan_id) ==
    [pc |-> "start", loan_id |-> loan_id, loan |-> <<>>,
     writer |-> FALSE, ret |-> 0, err |-> "None"]

\* one book with one copy out on loan 1, read on its due date or after it
InitConcReturn ==
    /\ impl \in Impls
    /\ tz = 0
    /\ dst = FALSE
    /\ now \in {FirstTick, LastTick}
    /\ \E quantity \in 1..MaxQty :
           books = <<[quantity |-> quantity, available |-> quantity - 1]>>
    /\ members = <<[penalty_days |-> 0]>>
    /\ loans = <<LoanRow(1, 1, DateOf(FirstTick), DateOf(FirstTick))>>
    /\ returns = <<>>
    /\ inTxn = FALSE
    /\ saved = NoSave
    /\ nfaults = 0
    /\ callers = [p \in 1..NCallers |-> NewReturner(1)]
    /\ last = NoCall
    /\ out = NoOut
    /\ seq = [books |-> 1, members |-> 1]

\* the statement of a caller that writes first: INSERT INTO Returns in
\* process_return, UPDATE Loans in return_book
FirstWrite == IF impl = "task03" THEN "insert_return" ELSE "mark_returned"

\* get_loan_by_id and the is_returned test
GetLoanStep(p) ==
    /\ callers[p].pc = "start"
    /\ IF callers[p].loan_id \notin DOMAIN View(p).loans
       THEN Finish(p, 0 - 1, "NotFound")
       ELSE IF already_returned(View(p).loans[callers[p].loan_id])
       THEN Finish(p, 0 - 1, "AlreadyReturned")
       ELSE callers' = [callers EXCEPT ![p].pc = "begin_return",
                                       ![p].loan = View(p).loans[callers[p].loan_id]]
    /\ UNCHANGED <<impl, tz, dst, out, seq, now, books, members, loans, returns, inTxn, saved, nfaults, last>>

\* BEGIN TRANSACTION (deferred: takes no lock)
BeginReturnStep(p) ==
    /\ callers[p].pc = "begin_return"
    /\ Goto(p, FirstWrite)
    /\ UNCHANGED <<impl, tz, dst, out, seq, now, books, members, loans, returns, inTxn, saved, nfaults, last>>

\* the Returns row of the caller
ReturnRowOf(p) ==
    IF impl = "task03"
    THEN ReturnRow(callers[p].loan_id, get_current_date,
                   Max(0, calculate_date_diff(callers[p].loan.due_date, get_current_date)))
    ELSE ReturnRow(callers[p].loan_id, get_date_string(0),
                   calculate_overdue_days(callers[p].loan.due_date, get_date_string(0)))

\* INSERT INTO Returns; as the first write it takes the write lock, SQLITE_BUSY
\* when another caller holds it: ROLLBACK and -1
InsertReturnStep(p) ==
    /\ callers[p].pc = "insert_return"
    /\ IF inTxn /\ ~callers[p].writer
       THEN /\ Finish(p, 0 - 1, "StorageFailure")
            /\ UNCHANGED <<returns, inTxn, saved>>
       ELSE /\ inTxn' = TRUE
            /\ saved' = IF inTxn THEN saved ELSE Tables(books, members, loans, returns)
            /\ returns' = Append(returns, ReturnRowOf(p))
            /\ callers' = [callers EXCEPT
                              ![p].pc = IF impl = "task03" THEN "mark_returned" ELSE "update_book",
                              ![p].writer = TRUE]
    /\ UNCHANGED <<impl, tz, dst, out, seq, now, books, members, loans, nfaults, last>>

\* UPDATE Loans SET is_returned = 1 WHERE loan_id = ?
MarkReturnedStep(p) ==
    /\ callers[p].pc = "mark_returned"
    /\ IF inTxn /\ ~callers[p].writer
       THEN /\ Finish(p, 0 - 1, "StorageFailure")
            /\ UNCHANGED <<loans, inTxn, saved>>
       ELSE /\ inTxn' = TRUE
            /\ saved' = IF inTxn THEN saved ELSE Tables(books, members, loans, returns)
            /\ loans' = mark_returned(Tables(books, members, loans, returns),
                                      callers[p].loan_id).loans
            /\ callers' = [callers EXCEPT
                              ![p].pc = IF impl = "task03" THEN "update_book" ELSE "insert_return",
                              ![p].writer = TRUE]
    /\ UNCHANGED <<impl, tz, dst, out, seq, now, books, members, returns, nfaults, last>>

\* UPDATE Books SET available = available + 1
UpdateBookStep(p) ==
    /\ callers[p].pc = "update_book"
    /\ books' = update_book_availability(Tables(books, members, loans, returns),
                                         callers[p].loan.book_id, 1).books
    /\ Goto(p, IF impl = "task04" /\ returns[Len(returns)].overdue_days > 0
               THEN "record_penalty" ELSE "commit_return")
    /\ UNCHANGED <<impl, tz, dst, out, seq, now, members, loans, returns, inTxn, saved, nfaults, last>>

\* record_penalty(member_id, days_overdue * 2) of return_book
RecordPenaltyStep(p) ==
    /\ callers[p].pc = "record_penalty"
    /\ members' = record_penalty(Tables(books, members, loans, returns),
                                 callers[p].loan.member_id,
                                 returns[Len(returns)].overdue_days * 2).members
    /\ Goto(p, "commit_return")
    /\ UNCHANGED <<impl, tz, dst, out, seq, now, books, loans, returns, inTxn, saved, nfaults, last>>

\* COMMIT: publishes the writes and releases the lock
CommitReturnStep(p) ==
    /\ callers[p].pc = "commit_return"
    /\ inTxn' = FALSE
    /\ saved' = NoSave
    /\ Finish(p, IF impl = "task03" THEN Len(returns) ELSE 0, "None")
    /\ UNCHANGED <<impl, tz, dst, out, seq, now, books, members, loans, returns, nfaults, last>>

GetLoan == \E p \in DOMAIN callers : GetLoanStep(p)
BeginReturn == \E p \in DOMAIN callers : BeginReturnStep(p)
InsertReturn == \E p \in DOMAIN callers : InsertReturnStep(p)
MarkReturned == \E p \in DOMAIN callers : MarkReturnedStep(p)
UpdateBook == \E p \in DOMAIN callers : UpdateBookStep(p)
RecordPenalty == \E p \in DOMAIN callers : RecordPenaltyStep(p)
CommitReturn == \E p \in DOMAIN callers : CommitReturnStep(p)

NextConcReturn ==
    \/ GetLoan
    \/ BeginReturn
    \/ InsertReturn
    \/ MarkReturned
    \/ UpdateBook
    \/ RecordPenalty
    \/ CommitReturn

SpecConcReturn == InitConcReturn /\ [][NextConcReturn]_vars

\* ---- a catalogue of several books, no storage faults ---------------------------
\* The same calls on a shelf of up to MaxShelf books, in a zone on UTC without
\* daylight saving and with the fault budget used up.
MaxShelf == 2

InitShelf ==
    /\ impl \in Impls
    /\ tz = 0
    /\ dst = FALSE
    /\ now = FirstTick
    /\ books = <<>>
    /\ members = <<>>
    /\ loans = <<>>
    /\ returns = <<>>
    /\ inTxn = FALSE
    /\ saved = NoSave
    /\ nfaults = MaxFaults
    /\ callers = <<>>
    /\ last = NoCall
    /\ out = NoOut
    /\ seq = NoSeq

\* add_book on the larger shelf
AddBookShelf ==
    \E quantity \in Quantities :
        /\ Len(books) < MaxShelf
        /\ books' = Append(books, [quantity |-> quantity, available |-> quantity])
        /\ seq' = [seq EXCEPT !.books = @ + 1]
        /\ last' = Call("add_book", 0, "None")
        /\ UNCHANGED <<impl, tz, dst, out, now, members, loans, returns, inTxn, saved, nfaults, callers>>

NextShelf == Tick \/ AddBookShelf \/ AddMember \/ IssueLoan \/ ReturnLoan

SpecShelf == InitShelf /\ [][NextShelf]_vars

\* ---- the queries of task03 ------------------------------------------------------
\* The engine of task03 without storage faults, together with the read-only
\* queries a caller may put between the calls.
InitQuery ==
    /\ impl = "task03"
    /\ tz \in TzOffsets
    /\ dst \in BOOLEAN /\ (dst => tz = 0)
    /\ now = FirstTick
    /\ books = <<>>
    /\ members = <<>>
    /\ loans = <<>>
    /\ returns = <<>>
    /\ inTxn = FALSE
    /\ saved = NoSave
    /\ nfaults = MaxFaults
    /\ callers = <<>>
    /\ last = NoCall
    /\ out = NoOut
    /\ seq = NoSeq

\* a query leaves every table and the connection as they are
QueryFrame ==
    UNCHANGED <<impl, tz, dst, seq, now, books, members, loans, returns, inTxn, saved,
                nfaults, callers, last>>

CheckLoanOverdue ==
    \E loan_id \in LoanIds :
        /\ out' = <<"check_loan_overdue", loan_id, check_loan_overdue(Cur.t, loan_id)>>
        /\ QueryFrame

CheckBookAvailability ==
    \E book_id \in BookIds :
        /\ out' = <<"check_book_availability", book_id, check_book_availability(Cur.t, book_id)>>
        /\ QueryFrame

NextQuery ==
    \/ Tick
    \/ AddBook
    \/ AddMember
    \/ IssueLoan
    \/ ReturnLoan
    \/ CheckLoanOverdue
    \/ CheckBookAvailability

SpecQuery == InitQuery /\ [][NextQuery]_vars

\* ---- the catalog ---------------------------------------------------------
\* Specification SpecCatalog: books and members are added and deleted and the
\* available count is updated directly, between loans and returns of the
\* loan module, all on one day.  AUTOINCREMENT never gives an id out twice, so after a DELETE
\* a table is a function on the ids that are left.
InitCatalog ==
    /\ impl = "task03"
    /\ tz = 0
    /\ dst = FALSE
    /\ now = FirstTick
    /\ books = <<>>
    /\ members = <<>>
    /\ loans = <<>>
    /\ returns = <<>>
    /\ inTxn = FALSE
    /\ saved = NoSave
    /\ nfaults = MaxFaults
    /\ callers = <<>>
    /\ last = NoCall
    /\ out = NoOut
    /\ seq = NoSeq

\* the changes handed to update_book_availability
Changes == {0 - 1, 1}

\* the available counts the model follows
AvailableRange == 0..(MaxQty + 1)

\* add_book: the new row takes the next id of sqlite_sequence
AddBookCatalog ==
    \E quantity \in 1..MaxQty :
        /\ seq.books < MaxShelf
        /\ books' = (seq.books + 1 :> [quantity |-> quantity, available |-> quantity]) @@ books
        /\ seq' = [seq EXCEPT !.books = @ + 1]
        /\ last' = Call("add_book", 0, "None")
        /\ UNCHANGED <<impl, tz, dst, out, now, members, loans, returns, inTxn, saved, nfaults, callers>>

\* add_member: the new row takes the next id of sqlite_sequence
AddMemberCatalog ==
    /\ seq.members < MaxMembers + 1
    /\ members' = (seq.members + 1 :> [penalty_days |-> 0]) @@ members
    /\ seq' = [seq EXCEPT !.members = @ + 1]
    /\ last' = Call("add_member", 0, "None")
    /\ UNCHANGED <<impl, tz, dst, out, now, books, loans, returns, inTxn, saved, nfaults, callers>>

DeleteBook ==
    \E book_id \in BookIds :
        /\ books' = delete_book(Cur.t, book_id).books
        /\ last' = Call("delete_book", IF delete_book_ok(Cur.t, book_id) THEN 0 ELSE 0 - 1, "None")
        /\ UNCHANGED <<impl, tz, dst, out, seq, now, members, loans, returns, inTxn, saved, nfaults, callers>>

DeleteMember ==
    \E member_id \in MemberIds :
        /\ members' = delete_member(Cur.t, member_id).members
        /\ last' = Call("delete_member", IF delete_member_ok(Cur.t, member_id) THEN 0 ELSE 0 - 1, "None")
        /\ UNCHANGED <<impl, tz, dst, out, seq, now, books, loans, returns, inTxn, saved, nfaults, callers>>

UpdateBookAvailability ==
    \E book_id \in BookIds, change \in Changes :
        /\ book_id \in DOMAIN books => books[book_id].available + change \in AvailableRange
        /\ books' = update_book_availability(Cur.t, book_id, change).books
        /\ last' = Call("update_book_availability",
                        IF update_book_availability_ok(Cur.t, book_id) THEN 0 ELSE 0 - 1, "None")
        /\ UNCHANGED <<impl, tz, dst, out, seq, now, members, loans, returns, inTxn, saved, nfaults, callers>>

NextCatalog ==
    \/ AddBookCatalog
    \/ AddMemberCatalog
    \/ DeleteBook
    \/ DeleteMember
    \/ UpdateBookAvailability
    \/ IssueLoan
    \/ ReturnLoan

SpecCatalog == InitCatalog /\ [][NextCatalog]_vars

\* ==== properties =============================================================
IsOpen(i) == loans[i].is_returned = 0

ReturnsOf(i) == {r \in DOMAIN returns : returns[r].loan_id = i}

\* the call added exactly one open Loan row for (book_id, member_id) and took
\* one copy of the book
IssuedAll(book_id, member_id) ==
    /\ book_id \in DOMAIN books
    /\ Len(loans') = Len(loans) + 1
    /\ SubSeq(loans', 1, Len(loans)) = loans
    /\ loans'[Len(loans')].book_id = book_id
    /\ loans'[Len(loans')].member_id = member_id
    /\ loans'[Len(loans')].is_returned = 0
    /\ books' = [books EXCEPT ![book_id].available = @ - 1]

IssuedNothing == loans' = loans /\ books' = books

\* C1: every call of issue_loan either adds one open Loan row and lowers the
\* book's available count by exactly 1, or adds no Loan row and leaves every
\* available count as it was.
C1_IssueAllOrNothing ==
    [][last'.op = "issue_loan" =>
          \A b \in BookIds, m \in MemberIds, p \in Periods, F \in Faults :
              IssueLoanCall(b, m, p, F) => (IssuedAll(b, m) \/ IssuedNothing)]_vars

\* the overdue days return_loan computes for loan l today
OverdueAtReturn(l) == Max(0, get_current_date - loans[l].due_date)

\* the penalty state after a complete return of loan l
PenaltyAfterReturn(l) ==
    IF impl = "task04" /\ OverdueAtReturn(l) > 0
    THEN [members EXCEPT ![loans[l].member_id].penalty_days =
              OverdueAtReturn(l) * SUSPENSION_MULTIPLIER]
    ELSE members

ReturnedAll(l) ==
    /\ l \in DOMAIN loans
    /\ loans[l].book_id \in DOMAIN books
    /\ returns' = Append(returns, ReturnRow(l, get_current_date, OverdueAtReturn(l)))
    /\ loans' = [loans EXCEPT ![l].is_returned = 1]
    /\ books' = [books EXCEPT ![loans[l].book_id].available = @ + 1]
    /\ members' = PenaltyAfterReturn(l)

ReturnedNothing == UNCHANGED <<books, members, loans, returns>>

\* C2: every call of return_loan either shows all of its effects (Return row,
\* is_returned flag, availability increment and, when overdue, the penalty
\* write) or none of them.
C2_ReturnAllOrNothing ==
    [][last'.op = "return_loan" =>
          \A l \in LoanIds, F \in Faults :
              ReturnLoanCall(l, F) => (ReturnedAll(l) \/ ReturnedNothing)]_vars

\* C4: every book has 0 <= available <= quantity.
C4_AvailableWithinQuantity ==
    \A b \in DOMAIN books :
        0 <= books[b].available /\ books[b].available <= books[b].quantity

\* C5: a Loan has at most one Return row, and is_returned = 1 exactly when
\* one Return row references it.
C5_OneReturnPerReturnedLoan ==
    \A i \in DOMAIN loans :
        Cardinality(ReturnsOf(i)) = (IF loans[i].is_returned = 1 THEN 1 ELSE 0)

\* C6: a Loan row is never deleted, a new row starts with is_returned = 0 and
\* a row with is_returned = 1 keeps it under every later operation.
C6_LoanLifecycle ==
    [][/\ \A i \in DOMAIN loans :
              /\ i \in DOMAIN loans'
              /\ (loans[i].is_returned = 1 => loans'[i].is_returned = 1)
       /\ \A i \in DOMAIN loans' \ DOMAIN loans : loans'[i].is_returned = 0]_vars

\* C7: return_loan on a loan whose is_returned is already true fails with
\* AlreadyReturned and writes nothing: the Returns, Books, Members and Loans
\* tables are what they were before the call, whatever storage fault is armed.
C7_SecondReturnRefused ==
    \A l \in DOMAIN loans, F \in Faults :
        loans[l].is_returned = 1
            => return_loan(Cur, l, F) = Result(Cur, 0 - 1, "AlreadyReturned")

AllDone == callers # <<>> /\ \A p \in DOMAIN callers : callers[p].pc = "done"

Winners == {p \in DOMAIN callers : callers[p].pc = "done" /\ callers[p].err = "None"}

\* C3: of the concurrent issue_loan calls for a book that starts with
\* available = 1 exactly one succeeds and every other one fails with
\* BookUnavailable, and available never becomes negative.
C3_ConcurrentIssueOneWinner ==
    /\ \A b \in DOMAIN books : books[b].available >= 0
    /\ (AllDone /\ books[1].quantity = 1) =>
           /\ Cardinality(Winners) = 1
           /\ \A p \in DOMAIN callers \ Winners : callers[p].err = "BookUnavailable"

\* ---- witnesses ---------------------------------------------------------------
\* a returned loan with its Return row next to a loan that is still open
C5_Witness ==
    \E i, j \in DOMAIN loans :
        /\ loans[i].is_returned = 1 /\ Cardinality(ReturnsOf(i)) = 1
        /\ IsOpen(j) /\ ReturnsOf(j) = {}

\* a second return has been refused
C7_Witness ==
    /\ last.op = "return_loan" /\ last.err = "AlreadyReturned"
    /\ \E i \in DOMAIN loans : loans[i].is_returned = 1

\* the result of issue_loan for book b in the current state
IssueResults(b) ==
    {issue_loan(Cur, b, m, p, F) : m \in MemberIds, p \in Periods, F \in Faults}

C9_UnknownBookNotFound ==
    [][last'.op = "issue_loan" =>
          \A b \in BookIds \ DOMAIN books, m \in MemberIds, p \in Periods, F \in Faults :
              IssueLoanCall(b, m, p, F)
                  => /\ last'.err = "NotFound"
                     /\ \A i \in DOMAIN loans' : loans'[i].book_id # b
                     /\ books' = books]_vars

\* open loans of the member, by the is_returned flag
OpenLoansOf(m) == {i \in DOMAIN loans : loans[i].member_id = m /\ IsOpen(i)}

\* C10: a member with an open loan that is k > 0 days past its due date has
\* member_overdue_days > 0 (= k when it is the member's only open loan), and
\* every issue_loan for that member fails with MemberSuspended and writes nothing.
C10_OverdueMemberSuspended ==
    impl = "task03" =>
        \A m \in DOMAIN members, i \in DOMAIN loans :
            (i \in OpenLoansOf(m) /\ get_current_date - loans[i].due_date > 0)
                => /\ check_member_overdue(Cur.t, m) > 0
                   /\ (OpenLoansOf(m) = {i} =>
                          check_member_overdue(Cur.t, m) = get_current_date - loans[i].due_date)
                   /\ \A b \in BookIds, p \in Periods, F \in Faults :
                          LET r == issue_loan(Cur, b, m, p, F)
                          IN  r.err = "MemberSuspended" /\ r.ret = 0 - 1 /\ r.c = Cur

\* the Return row a successful return_loan has just written
LastReturn == returns[Len(returns)]

\* C11: when return_loan has recorded overdue_days > 0 the member's penalty
\* state is overdue_days * 2, and the member's next issue_loan reads it: no
\* loan is issued, and for a book that is available the error is
\* MemberSuspended.
C11_PenaltyAppliedAndRead ==
    (/\ last.op = "return_loan" /\ last.err = "None"
     /\ returns # <<>>
     /\ LastReturn.overdue_days > 0
     /\ LastReturn.loan_id \in DOMAIN loans)
        => LET m == loans[LastReturn.loan_id].member_id
           IN  /\ members[m].penalty_days = calculate_suspension_days(LastReturn.overdue_days)
               /\ \A b \in BookIds, p \in Periods, F \in Faults :
                      LET r == issue_loan(Cur, b, m, p, F)
                      IN  /\ r.ret = 0 - 1
                          /\ r.c.t.loans = loans
                          /\ check_book_availability(Cur.t, b) = 1 => r.err = "MemberSuspended"

\* C12: a Return row is written with return_date = today and with
\* overdue_days = max(0, return_date - due_date of its loan), which is never
\* negative and is 0 for a return on or before the due date.
C12_OverdueDaysStored ==
    [][Len(returns') > Len(returns) =>
          LET row == returns'[Len(returns')]
              due == loans'[row.loan_id].due_date
          IN  /\ Len(returns') = Len(returns) + 1
              /\ row.return_date = get_current_date
              /\ row.overdue_days = Max(0, row.return_date - due)
              /\ row.overdue_days >= 0
              /\ row.return_date <= due => row.overdue_days = 0]_vars

\* a late return (one day overdue) and an early return (nothing overdue) are both on record
C12_Witness ==
    /\ last.op = "return_loan" /\ last.err = "None"
    /\ \E r \in DOMAIN returns :
           /\ returns[r].return_date = loans[returns[r].loan_id].due_date + 1
           /\ returns[r].overdue_days = 1
    /\ \E r \in DOMAIN returns :
           /\ returns[r].return_date < loans[returns[r].loan_id].due_date
           /\ returns[r].overdue_days = 0

\* the period an engine works with: process_loan substitutes the default for
\* a period <= 0, loan_book takes the period as it is passed
EffectivePeriod(period) ==
    IF impl = "task03" /\ period <= 0 THEN DEFAULT_LOAN_PERIOD ELSE period

\* C13: the Loan row an issue_loan call creates has loan_date = today and
\* due_date = loan_date + P calendar days, P the effective loan period.
C13_LoanDates ==
    \A b \in BookIds, m \in MemberIds, p \in Periods, F \in Faults :
        LET r == issue_loan(Cur, b, m, p, F)
        IN  Len(r.c.t.loans) > Len(loans) =>
                LET row == r.c.t.loans[Len(r.c.t.loans)]
                IN  /\ row.loan_date = get_current_date
                    /\ row.due_date = row.loan_date + EffectivePeriod(p)

\* periods <= 0 a caller may pass
NonPositivePeriods == {0 - 1, 0}

\* C14: issue_loan with a loan period <= 0 fails only where the same call with
\* a positive period fails, and the loan it creates has
\* due_date = loan_date + 14.
C14_DefaultPeriod ==
    \A b \in BookIds, m \in MemberIds, p \in NonPositivePeriods, F \in Faults :
        LET r == issue_loan(Cur, b, m, p, F)
            r1 == issue_loan(Cur, b, m, 1, F)
        IN  /\ r.err = r1.err
            /\ Len(r.c.t.loans) > Len(loans) =>
                   LET row == r.c.t.loans[Len(r.c.t.loans)]
                   IN  row.due_date = row.loan_date + DEFAULT_LOAN_PERIOD

\* the member is suspended in the eyes of the engine
Suspended(m) ==
    IF impl = "task03" THEN check_member_overdue(Cur.t, m) > 0
    ELSE check_penalty_status_ok(Cur.t, m) /\ check_penalty_status(Cur.t, m) > 0

\* C15: member eligibility is checked before book availability: issue_loan
\* for a suspended member on a book with available = 0 fails with
\* MemberSuspended, not BookUnavailable.
C15_MemberCheckedFirst ==
    \A b \in DOMAIN books, m \in DOMAIN members :
        (books[b].available = 0 /\ Suspended(m)) =>
            \A p \in Periods, F \in Faults :
                issue_loan(Cur, b, m, p, F).err = "MemberSuspended"

\* the storage faults that strike a statement of every issue_loan, and of
\* every return_loan, that reaches its effect phase
IssueFaults == {"begin", "insert", "update", "commit_rb", "commit_open"}

ReturnFaults == {"begin", "insert", "flag", "update", "commit_rb", "commit_open"}

\* C16: a call that reports success has committed its writes (its row is in
\* the table and no transaction is left open), and a call that would succeed
\* without a fault reports StorageFailure when a storage fault strikes its
\* begin, one of its statements or its commit.
C16_SuccessMeansCommitted ==
    /\ \A b \in BookIds, m \in MemberIds, p \in Periods, F \in Faults :
           LET r == issue_loan(Cur, b, m, p, F)
           IN  /\ r.err = "None" => (~r.c.in /\ Len(r.c.t.loans) = Len(loans) + 1)
               /\ (F \in IssueFaults /\ issue_loan(Cur, b, m, p, "none").err = "None")
                      => r.err = "StorageFailure"
    /\ \A l \in LoanIds, F \in Faults :
           LET r == return_loan(Cur, l, F)
           IN  /\ r.err = "None" => (~r.c.in /\ Len(r.c.t.returns) = Len(returns) + 1)
               /\ (F \in ReturnFaults /\ return_loan(Cur, l, "none").err = "None")
                      => r.err = "StorageFailure"

\* C17: when a call of issue_loan or return_loan has returned, with success
\* or with any error, the connection has no open transaction.
C17_NoTransactionLeftOpen == last.op \in {"issue_loan", "return_loan"} => ~inTxn

\* C18: when issue_loan has created a loan and return_loan of that loan,
\* called right after it on the same day, reports success, the loan has a
\* Return row with overdue_days = 0 and the book's available count is what it
\* was before the issue_loan.
C18_IssueThenReturn ==
    \A b \in DOMAIN books, m \in MemberIds, p \in Periods, F1 \in Faults, F2 \in Faults :
        LET r1 == issue_loan(Cur, b, m, p, F1)
            l == Len(r1.c.t.loans)
        IN  (r1.err = "None" /\ l = Len(loans) + 1) =>
                LET r2 == return_loan(r1.c, l, F2)
                IN  r2.err = "None" =>
                        /\ \E i \in DOMAIN r2.c.t.returns :
                               /\ r2.c.t.returns[i].loan_id = l
                               /\ r2.c.t.returns[i].overdue_days = 0
                        /\ r2.c.t.books[b].available = books[b].available

\* C19: a successful issue_loan returns the loan_id of the row it inserted:
\* an id no Loan had before the call, of a Loan with the requested book_id
\* and member_id and is_returned = 0.
C19_ReturnsNewLoanId ==
    \A b \in BookIds, m \in MemberIds, p \in Periods, F \in Faults :
        LET r == issue_loan(Cur, b, m, p, F)
        IN  r.err = "None" =>
                /\ r.ret \notin DOMAIN loans
                /\ r.ret \in DOMAIN r.c.t.loans
                /\ r.c.t.loans[r.ret].book_id = b
                /\ r.c.t.loans[r.ret].member_id = m
                /\ r.c.t.loans[r.ret].is_returned = 0

\* C20: the overdue days of a member are the maximum, over the member's open
\* loans, of max(0, today - due_date), and 0 when the member has no open
\* loan; returned loans do not count.
C20_MemberOverdueDays ==
    impl = "task03" =>
        \A m \in MemberIds :
            check_member_overdue(Cur.t, m) =
                (IF OpenLoansOf(m) = {} THEN 0
                 ELSE SetMax({Max(0, get_current_date - loans[i].due_date) : i \in OpenLoansOf(m)}))

\* C21: check_loan_overdue fails (-1) on a loan_id that does not exist,
\* reports (0, 0 days) on a returned loan whatever its due_date, and on an
\* open loan reports days = max(0, today - due_date) and 1 exactly when
\* days > 0.
C21_CheckLoanOverdue ==
    \A l \in LoanIds :
        LET r == check_loan_overdue(Cur.t, l)
        IN  /\ l \notin DOMAIN loans => r.ret = 0 - 1
            /\ (l \in DOMAIN loans /\ loans[l].is_returned = 1) =>
                   (r.ret = 0 /\ r.overdue_days = 0)
            /\ (l \in DOMAIN loans /\ loans[l].is_returned = 0) =>
                   /\ r.overdue_days = Max(0, get_current_date - loans[l].due_date)
                   /\ r.ret = (IF r.overdue_days > 0 THEN 1 ELSE 0)

\* the query has just answered for a returned loan that is past its due date
C21_Witness ==
    /\ out # NoOut /\ out[1] = "check_loan_overdue"
    /\ out[2] \in DOMAIN loans
    /\ loans[out[2]].is_returned = 1
    /\ get_current_date > loans[out[2]].due_date
    /\ out[3] = check_loan_overdue(Cur.t, out[2])
    /\ out[3] = [ret |-> 0, overdue_days |-> 0]

\* the eligibility decision of issue_loan for member m
Eligible(m) ==
    IF impl = "task03" THEN can_member_borrow(Cur.t, m) = 1
    ELSE is_member_eligible_to_loan(Cur.t, m) = 1

\* C22: the eligibility decision depends on the member's open loans and on
\* today's date only.  Two instances on reachable states: a member without
\* open loans is decided like a member who has just been added (eligible),
\* whatever was returned before; and a step that changes neither the tables
\* nor today's date does not change any member's decision.
C22_EligibilityFromOpenLoans ==
    [][/\ \A m \in DOMAIN members' : (OpenLoansOf(m)' = {}) => Eligible(m)'
       /\ (/\ loans' = loans /\ returns' = returns /\ members' = members
           /\ get_current_date' = get_current_date)
              => \A m \in DOMAIN members : Eligible(m)' = Eligible(m)]_vars

\* the day offsets handed to add_days_to_date and get_date_string
Offsets == (0 - 1)..1

\* C23: a date moved by n days is n days away from the date it was moved
\* from, and the reverse difference is -n: with the date functions of loan.c
\* for every date d, calculate_date_diff(d, add_days_to_date(d, n)) = n, and
\* with those of date_utils.c date_difference(get_date_string(0),
\* get_date_string(n)) = n and date_difference(get_date_string(n),
\* get_date_string(0)) = -n
C23_AddThenDiff ==
    \A n \in Offsets :
        /\ \A d \in 0..MaxDay :
               /\ calculate_date_diff(d, add_days_to_date(d, n)) = n
               /\ calculate_date_diff(add_days_to_date(d, n), d) = 0 - n
        /\ date_difference(get_date_string(0), get_date_string(n)) = n
        /\ date_difference(get_date_string(n), get_date_string(0)) = 0 - n

\* ---------------------------------------------------------------------
\* Dates as text: the strings the date functions read and write. A C string
\* is the sequence of its characters; the day number of a date counts the
\* days since 1970-01-01, the date of instant 0.

\* the null pointer, not a string
NULL == <<"NULL">>

DigitChars == <<"0", "1", "2", "3", "4", "5", "6", "7", "8", "9">>

IsDigit(c) == \E i \in 1..10 : DigitChars[i] = c

DigitVal(c) == (CHOOSE i \in 1..10 : DigitChars[i] = c) - 1

\* the white space a %d conversion skips
RECURSIVE SkipSpace(_)
SkipSpace(s) == IF s # <<>> /\ Head(s) = " " THEN SkipSpace(Tail(s)) ELSE s

\* the longest run of decimal digits at the front of s: its value, its length
\* and what follows it
RECURSIVE ScanDigits(_, _, _)
ScanDigits(s, n, k) ==
    IF s # <<>> /\ IsDigit(Head(s))
    THEN ScanDigits(Tail(s), n * 10 + DigitVal(Head(s)), k + 1)
    ELSE [n |-> n, k |-> k, rest |-> s]

\* one %d conversion: white space, an optional sign, at least one digit
scan_d(s) ==
    LET s1 == SkipSpace(s)
        signed == s1 # <<>> /\ Head(s1) \in {"-", "+"}
        r == ScanDigits(IF signed THEN Tail(s1) ELSE s1, 0, 0)
    IN  [ok |-> r.k > 0,
         val |-> IF signed /\ Head(s1) = "-" THEN 0 - r.n ELSE r.n,
         rest |-> r.rest]

\* the literal '-' of the format: the next character must be a dash
scan_dash(s) == [ok |-> s # <<>> /\ Head(s) = "-", rest |-> IF s = <<>> THEN s ELSE Tail(s)]

\* sscanf(str, "%d-%d-%d", &year, &mon, &mday): <<year, mon, mday>> when the
\* three conversions succeed (sscanf returns 3), <<>> otherwise; whatever
\* follows the third number is not looked at
sscanf(str) ==
    LET a == scan_d(str)
        d1 == scan_dash(a.rest)
        b == scan_d(d1.rest)
        d2 == scan_dash(b.rest)
        c == scan_d(d2.rest)
    IN  IF a.ok /\ d1.ok /\ b.ok /\ d2.ok /\ c.ok THEN <<a.val, b.val, c.val>> ELSE <<>>

\* mktime's calendar: the day number of year-mon-mday (mon counted from 1),
\* with a month outside 1..12 carried into the year and a day outside the
\* month carried into the following or preceding months
days_from_civil(year, mon, mday) ==
    LET y0 == year + ((mon - 1) \div 12)
        m == ((mon - 1) % 12) + 1
        y == IF m <= 2 THEN y0 - 1 ELSE y0
        era == y \div 400
        yoe == y - era * 400
        doy == ((153 * (IF m > 2 THEN m - 3 ELSE m + 9) + 2) \div 5) + mday - 1
        doe == yoe * 365 + (yoe \div 4) - (yoe \div 100) + doy
    IN  era * 146097 + doe - 719468

\* localtime's calendar: the year, month and day of the month of a day number
civil_from_days(z) ==
    LET z1 == z + 719468
        era == z1 \div 146097
        doe == z1 - era * 146097
        yoe == (doe - (doe \div 1460) + (doe \div 36524) - (doe \div 146096)) \div 365
        doy == doe - (365 * yoe + (yoe \div 4) - (yoe \div 100))
        mp == (5 * doy + 2) \div 153
        m == IF mp < 10 THEN mp + 3 ELSE mp - 9
    IN  [year |-> yoe + era * 400 + (IF m <= 2 THEN 1 ELSE 0),
         mon |-> m,
         mday |-> doy - ((153 * mp + 2) \div 5) + 1]

\* the decimal digits of an integer, with its sign when negative
RECURSIVE Decimal(_)
Decimal(n) ==
    IF n < 0 THEN <<"-">> \o Decimal(0 - n)
    ELSE IF n < 10 THEN <<DigitChars[n + 1]>>
    ELSE Decimal(n \div 10) \o <<DigitChars[(n % 10) + 1]>>

\* %m and %d of a month or a day of the month: two digits, zero-padded
Pad2(n) == IF n < 10 THEN <<"0">> \o Decimal(n) ELSE Decimal(n)

\* mutant: tm_mon, which counts from 0, is written as the month
strftime_tm_mon(day) ==
    LET c == civil_from_days(day)
    IN  Decimal(c.year) \o <<"-">> \o Pad2(c.mon - 1) \o <<"-">> \o Pad2(c.mday)

\* strftime(buf, size, "%Y-%m-%d", tm) of the date with the given day number
strftime(day) ==
    LET c == civil_from_days(day)
    IN  Decimal(c.year) \o <<"-">> \o Pad2(c.mon) \o <<"-">> \o Pad2(c.mday)

\* the largest int
INT_MAX == 2147483647

SecondsPerDay == 60 * 60 * 24

\* the seconds of one tick of the clock
SecondsPerTick == SecondsPerDay \div TicksPerDay

\* whether a difftime of x ticks, in seconds, fits an int
FitsInt(x) == x <= INT_MAX \div SecondsPerTick /\ 0 - x <= INT_MAX \div SecondsPerTick

\* the day number mktime gives the fields sscanf read
DayOfFields(p) == days_from_civil(p[1], p[2], p[3])

\* mutant: an argument that is NULL or cannot be parsed is answered with -1
date_difference_text_signalling(date1, date2) ==
    IF date1 = NULL \/ date2 = NULL THEN {0 - 1}
    ELSE IF sscanf(date1) = <<>> THEN {0 - 1}
    ELSE IF sscanf(date2) = <<>> THEN {0 - 1}
    ELSE {date_difference(DayOfFields(sscanf(date1)), DayOfFields(sscanf(date2)))}

\* date_difference on strings: the set of values the call can return. A
\* difference in seconds that does not fit an int makes the conversion
\* (int)difftime(t2, t1) undefined: the builds give INT_MIN (x86) or the
\* nearest int (ARM), divided by 86400
date_difference_text(date1, date2) ==
    IF date1 = NULL \/ date2 = NULL THEN {0}
    ELSE IF sscanf(date1) = <<>> THEN {0}
    ELSE IF sscanf(date2) = <<>> THEN {0}
    ELSE LET d1 == DayOfFields(sscanf(date1))
             d2 == DayOfFields(sscanf(date2))
             x == mktime(Midnight(d2), 0) - mktime(Midnight(d1), 0)
         IN  IF FitsInt(x) THEN {date_difference(d1, d2)}
             ELSE {0 - (INT_MAX \div SecondsPerDay),
                   IF x > 0 THEN INT_MAX \div SecondsPerDay
                   ELSE 0 - (INT_MAX \div SecondsPerDay)}

\* calculate_date_diff on strings: the difference of two time_t is not
\* narrowed before the division
calculate_date_diff_text(date1, date2) ==
    IF sscanf(date1) = <<>> THEN 0
    ELSE IF sscanf(date2) = <<>> THEN 0
    ELSE calculate_date_diff(DayOfFields(sscanf(date1)), DayOfFields(sscanf(date2)))

\* add_days_to_date on strings: an unparseable date is copied to the result
add_days_to_date_text(date_str, days) ==
    IF sscanf(date_str) = <<>> THEN date_str
    ELSE strftime(add_days_to_date(DayOfFields(sscanf(date_str)), days))

\* get_date_string: the string strftime writes
get_date_string_text(days_to_add) == strftime(get_date_string(days_to_add))

get_current_date_string == get_date_string_text(0)

\* is_valid_date_string: the ranges, then mktime (tm_isdst = 0) and localtime
\* must give the same year, month and day back
is_valid_date_string(date_str) ==
    IF date_str = NULL THEN 0
    ELSE IF sscanf(date_str) = <<>> THEN 0
    ELSE LET p == sscanf(date_str)
         IN  IF p[1] < 1900 \/ p[1] > 3000 THEN 0
             ELSE IF p[2] < 1 \/ p[2] > 12 THEN 0
             ELSE IF p[3] < 1 \/ p[3] > 31 THEN 0
             ELSE LET t == mktime(Midnight(DayOfFields(p)), 0)
                      normalized == civil_from_days(DateOf(localtime(t)))
                  IN  IF normalized.year # p[1] \/ normalized.mon # p[2] \/ normalized.mday # p[3]
                      THEN 0
                      ELSE 1

\* the strings handed to the date functions
DateTexts ==
    { NULL,
      <<"2", "0", "2", "5", "-", "0", "1", "-", "1", "5">>,
      <<"2", "0", "2", "5", "-", "0", "1", "-", "1", "6">>,
      <<"2", "0", "2", "5", "-", "0", "2", "-", "2", "8">>,
      <<"2", "0", "2", "5", "-", "0", "3", "-", "0", "1">>,
      <<"2", "0", "2", "4", "-", "0", "2", "-", "2", "8">>,
      <<"2", "0", "2", "4", "-", "0", "2", "-", "2", "9">>,
      <<"2", "0", "2", "4", "-", "0", "3", "-", "0", "1">>,
      <<"2", "0", "2", "4", "-", "0", "1", "-", "0", "1">>,
      <<"2", "0", "2", "5", "-", "0", "1", "-", "0", "1">>,
      <<"2", "0", "0", "0", "-", "0", "2", "-", "2", "9">>,
      <<"1", "9", "0", "0", "-", "0", "2", "-", "2", "9">>,
      <<"2", "0", "2", "5", "-", "0", "2", "-", "2", "9">>,
      <<"2", "0", "2", "5", "-", "0", "2", "-", "3", "0">>,
      <<"2", "0", "2", "5", "-", "0", "4", "-", "3", "1">>,
      <<"2", "0", "2", "5", "-", "1", "3", "-", "0", "1">>,
      <<"2", "0", "2", "5", "-", "0", "0", "-", "1", "5">>,
      <<"2", "0", "2", "5", "-", "0", "1", "-", "3", "2">>,
      <<"2", "0", "2", "5", "-", "0", "1", "-", "0", "0">>,
      <<"1", "8", "9", "9", "-", "0", "1", "-", "0", "1">>,
      <<"3", "0", "0", "1", "-", "0", "1", "-", "0", "1">>,
      <<"1", "9", "0", "0", "-", "0", "1", "-", "0", "1">>,
      <<"3", "0", "0", "0", "-", "1", "2", "-", "3", "1">>,
      <<>>,
      <<"2", "0", "2", "5", "/", "0", "1", "/", "1", "5">>,
      <<"2", "5", "-", "0", "1", "-", "1", "5">>,
      <<"i", "n", "v", "a", "l", "i", "d">>,
      <<"2", "0", "2", "5", "-", "1", "-", "1", "5">>,
      <<"2", "0", "2", "5", "-", "0", "1", "-", "1", "5", "x">>,
      <<" ", "2", "0", "2", "5", "-", "0", "1", "-", "1", "5">> }

\* the day offsets handed to get_date_string
DayOffsets == {0 - 25600, 0 - 365, 0 - 30, 0 - 1, 0, 1, 7, 365, 788}

\* the strings handed to date_difference and calculate_date_diff as the second
\* date
SecondDateTexts ==
    { NULL,
      <<"2", "0", "2", "5", "-", "0", "1", "-", "1", "5">>,
      <<"2", "0", "2", "5", "-", "0", "1", "-", "1", "6">>,
      <<"2", "0", "2", "4", "-", "0", "3", "-", "0", "1">>,
      <<"2", "0", "2", "5", "-", "0", "3", "-", "0", "1">>,
      <<"2", "0", "2", "5", "-", "0", "1", "-", "0", "1">>,
      <<"1", "9", "0", "0", "-", "0", "1", "-", "0", "1">>,
      <<"i", "n", "v", "a", "l", "i", "d">>,
      <<"2", "0", "2", "5", "/", "0", "1", "/", "1", "5">> }

\* the arguments of one round of calls: two strings, or a string and a day
\* offset
DateArgs ==
    {[op |-> "none", date1 |-> a, date2 |-> b, days |-> 0, ret |-> 0] :
        a \in DateTexts, b \in SecondDateTexts}
    \cup
    {[op |-> "none", date1 |-> a, date2 |-> a, days |-> n, ret |-> 0] :
        a \in DateTexts, n \in DayOffsets}

\* Specification SpecDates: the date functions applied to the arguments drawn
\* at the start, in every zone and at every instant of the clock; out holds
\* the arguments, the function called last and what it returned
InitDates ==
    /\ impl = "task04"
    /\ tz \in TzOffsets
    /\ dst \in BOOLEAN /\ (dst => tz = 0)
    /\ now = FirstTick
    /\ books = <<>>
    /\ members = <<>>
    /\ loans = <<>>
    /\ returns = <<>>
    /\ inTxn = FALSE
    /\ saved = NoSave
    /\ nfaults = MaxFaults
    /\ callers = <<>>
    /\ last = NoCall
    /\ out \in DateArgs
    /\ seq = NoSeq

\* out after a call of op that returned ret
Returned(op, ret) == [out EXCEPT !.op = op, !.ret = ret]

DateDifference ==
    \E r \in date_difference_text(out.date1, out.date2) :
        /\ out' = Returned("date_difference", r)
        /\ QueryFrame

CalculateDateDiff ==
    /\ out.date1 # NULL /\ out.date2 # NULL
    /\ out' = Returned("calculate_date_diff", calculate_date_diff_text(out.date1, out.date2))
    /\ QueryFrame

AddDaysToDate ==
    /\ out.date1 # NULL
    /\ out' = Returned("add_days_to_date", add_days_to_date_text(out.date1, out.days))
    /\ QueryFrame

IsValidDateString ==
    /\ out' = Returned("is_valid_date_string", is_valid_date_string(out.date1))
    /\ QueryFrame

GetDateString ==
    /\ out' = Returned("get_date_string", get_date_string_text(out.days))
    /\ QueryFrame

NextDates ==
    \/ Tick
    \/ DateDifference
    \/ CalculateDateDiff
    \/ AddDaysToDate
    \/ IsValidDateString
    \/ GetDateString

SpecDates == InitDates /\ [][NextDates]_vars

\* ---------------------------------------------------------------------
\* The Gregorian calendar, counted directly

IsLeapYear(y) == (y % 4 = 0 /\ y % 100 # 0) \/ y % 400 = 0

DaysInMonth(y, m) ==
    IF m = 2 THEN (IF IsLeapYear(y) THEN 29 ELSE 28)
    ELSE IF m \in {4, 6, 9, 11} THEN 30
    ELSE 31

\* the leap years from year 1 to year y
LeapYearsThrough(y) == (y \div 4) - (y \div 100) + (y \div 400)

RECURSIVE DaysBeforeMonth(_, _)
DaysBeforeMonth(y, m) == IF m = 1 THEN 0 ELSE DaysBeforeMonth(y, m - 1) + DaysInMonth(y, m - 1)

\* the days from 1970-01-01 to the date
DayNumber(y, m, d) ==
    (y - 1970) * 365 + (LeapYearsThrough(y - 1) - LeapYearsThrough(1969))
        + DaysBeforeMonth(y, m) + (d - 1)

\* a string that starts with a date of the calendar, year 1900 to 3000
ValidDate(s) ==
    /\ s # NULL
    /\ sscanf(s) # <<>>
    /\ sscanf(s)[1] \in 1900..3000
    /\ sscanf(s)[2] \in 1..12
    /\ sscanf(s)[3] \in 1..DaysInMonth(sscanf(s)[1], sscanf(s)[2])

DayNumberOf(s) == DayNumber(sscanf(s)[1], sscanf(s)[2], sscanf(s)[3])

\* C24: date_difference(a, b) on two valid dates is the number of calendar
\* days from a to b under the Gregorian calendar, across month and year
\* boundaries and leap years
C24_CalendarDays ==
    (out.op = "date_difference" /\ ValidDate(out.date1) /\ ValidDate(out.date2))
        => out.ret = DayNumberOf(out.date2) - DayNumberOf(out.date1)

\* C25: the difference of two valid dates is signed: a date is 0 days from
\* itself, and the difference from a to b is minus the difference from b to
\* a, for date_difference and for calculate_date_diff
C25_SignedDifference ==
    (ValidDate(out.date1) /\ ValidDate(out.date2)) =>
        /\ out.op = "date_difference" =>
               /\ out.date1 = out.date2 => out.ret = 0
               /\ \A r \in date_difference_text(out.date2, out.date1) : out.ret = 0 - r
        /\ out.op = "calculate_date_diff" =>
               /\ out.date1 = out.date2 => out.ret = 0
               /\ out.ret = 0 - calculate_date_diff_text(out.date2, out.date1)

\* a string of exactly the form YYYY-MM-DD: ten characters, digits around
\* two dashes
IsValidDateFormat(s) ==
    /\ s # NULL
    /\ Len(s) = 10
    /\ \A i \in 1..10 : IF i \in {5, 8} THEN s[i] = "-" ELSE IsDigit(s[i])

\* C26: is_valid_date_string returns 1 exactly for the strings YYYY-MM-DD that
\* denote a date of the calendar with year 1900 to 3000, month 1 to 12 and a
\* day within the length of the month (February 29 in leap years only), and 0
\* for NULL, the empty string, wrong separators and every other input
C26_ValidExactly ==
    out.op = "is_valid_date_string" =>
        /\ out.ret \in {0, 1}
        /\ out.ret = 1 <=> (IsValidDateFormat(out.date1) /\ ValidDate(out.date1))

\* what C27 says of one generated string
RoundTrips(s) ==
    /\ IsValidDateFormat(s)
    /\ is_valid_date_string(s) = 1
    /\ date_difference_text(s, s) = {0}
    /\ strftime(DayOfFields(sscanf(s))) = s
    /\ DayOfFields(sscanf(strftime(DayOfFields(sscanf(s))))) = DayOfFields(sscanf(s))
    /\ DayOfFields(sscanf(s)) = DayNumberOf(s)

\* C27 as stated: every string get_date_string produces, for any day offset,
\* is a zero-padded YYYY-MM-DD that is_valid_date_string accepts, that is 0
\* days from itself and that parses back to the date it was formatted from
C27_AnyOffsetRoundTrips ==
    out.op = "get_date_string" => RoundTrips(out.ret)

\* C27 amended: the same for every generated date of the years 1900 to 3000
C27_GeneratedDatesRoundTrip ==
    (out.op = "get_date_string" /\ sscanf(out.ret)[1] \in 1900..3000) => RoundTrips(out.ret)

\* a date generated across a leap day, accepted and parsed back
C27_Witness ==
    /\ out.op = "get_date_string"
    /\ out.days = 788
    /\ out.ret = <<"1", "9", "7", "2", "-", "0", "2", "-", "2", "9">>
    /\ RoundTrips(out.ret)

\* C28: day counts are computed on dates alone. The difference of two dates
\* is their distance in days in every zone, with and without daylight saving
\* time; the overdue_days stored by a return is max(0, return_date -
\* due_date); and while the calendar date and the loans stay the same, the
\* overdue days of a member and of a loan do not change with the time of day
C28_DateOnlyDayCounts ==
    [][/\ \A d1 \in 0..(MaxDay + 1), d2 \in 0..(MaxDay + 1) :
              /\ calculate_date_diff(d1, d2) = d2 - d1
              /\ date_difference(d1, d2) = d2 - d1
       /\ Len(returns') > Len(returns) =>
              returns'[Len(returns')].overdue_days =
                  Max(0, returns'[Len(returns')].return_date
                             - loans'[returns'[Len(returns')].loan_id].due_date)
       /\ (loans' = loans /\ returns' = returns /\ get_current_date' = get_current_date) =>
              /\ \A m \in MemberIds :
                     check_member_overdue(Cur.t, m)' = check_member_overdue(Cur.t, m)
              /\ \A l \in LoanIds :
                     check_loan_overdue(Cur.t, l)' = check_loan_overdue(Cur.t, l)]_vars

\* a null pointer, or a string with fewer than two dashes: not three
\* dash-separated integers
NotADate(s) == s = NULL \/ Cardinality({i \in 1..Len(s) : s[i] = "-"}) < 2

\* C29: date_difference returns 0 whenever an argument is NULL or is not three
\* dash-separated integers, the value it also returns for two equal dates;
\* calculate_date_diff returns 0 on such a string as well
C29_InvalidInputGivesZero ==
    /\ (out.op \in {"date_difference", "calculate_date_diff"}
           /\ (NotADate(out.date1) \/ NotADate(out.date2))) => out.ret = 0
    /\ (out.op \in {"date_difference", "calculate_date_diff"}
           /\ ValidDate(out.date1) /\ out.date2 = out.date1) => out.ret = 0

\* date_difference("2025/01/15", "2025-01-16") returned 0
C29_Witness ==
    /\ out.op = "date_difference"
    /\ out.date1 = <<"2", "0", "2", "5", "/", "0", "1", "/", "1", "5">>
    /\ out.date2 = <<"2", "0", "2", "5", "-", "0", "1", "-", "1", "6">>
    /\ out.ret = 0

\* C30: check_book_availability(book_id) returns 1 when the book exists with
\* available > 0, 0 when it exists with available = 0 and -1 when no book has
\* that id, and the call changes no row of any table
C30_CheckBookAvailability ==
    [][(out' # out /\ out'[1] = "check_book_availability") =>
          /\ books' = books /\ members' = members /\ loans' = loans /\ returns' = returns
          /\ out'[2] \notin DOMAIN books => out'[3] = 0 - 1
          /\ (out'[2] \in DOMAIN books /\ books[out'[2]].available > 0) => out'[3] = 1
          /\ (out'[2] \in DOMAIN books /\ books[out'[2]].available = 0) => out'[3] = 0]_vars

\* asked about a book whose copies are all on loan: 0
C30_Witness ==
    /\ out # NoOut /\ out[1] = "check_book_availability"
    /\ out[2] \in DOMAIN books
    /\ books[out[2]].quantity > 0 /\ books[out[2]].available = 0
    /\ out[3] = 0

\* C31: update_book_availability(book_id, change) on an existing book returns
\* 0 and sets available to available + change, leaving quantity, every other
\* book and every other table as they were; on a book_id without a row it
\* returns -1 and changes nothing
C31_UpdateBookAvailability ==
    \A book_id \in 1..(MaxShelf + 1), change \in Changes :
        LET t2 == update_book_availability(Cur.t, book_id, change)
            ret == IF update_book_availability_ok(Cur.t, book_id) THEN 0 ELSE 0 - 1
        IN  IF book_id \in DOMAIN books
            THEN /\ ret = 0
                 /\ DOMAIN t2.books = DOMAIN books
                 /\ t2.books[book_id].available = books[book_id].available + change
                 /\ t2.books[book_id].quantity = books[book_id].quantity
                 /\ \A b \in DOMAIN books \ {book_id} : t2.books[b] = books[b]
                 /\ t2.members = members /\ t2.loans = loans /\ t2.returns = returns
            ELSE /\ ret = 0 - 1
                 /\ t2 = Cur.t

\* update_book_availability has raised the count of one of two books above
\* its quantity, the other book still has every copy
C31_Witness ==
    /\ last.op = "update_book_availability" /\ last.ret = 0
    /\ \E b \in DOMAIN books, o \in DOMAIN books :
           /\ b # o
           /\ books[b].available = books[b].quantity + 1
           /\ books[o].available = books[o].quantity
    /\ loans = <<>>

\* the loans of a book that are out: is_returned = 0
OpenLoansOfBook(b) == {l \in DOMAIN loans : loans[l].book_id = b /\ loans[l].is_returned = 0}

\* C32: after any sequence of add_book, issue_loan and return_loan, every book
\* has available + (number of its loans with is_returned = 0) = quantity
C32_CopiesConserved ==
    \A b \in DOMAIN books :
        books[b].available + Cardinality(OpenLoansOfBook(b)) = books[b].quantity

\* a book with one copy out and one copy that came back
C32_Witness ==
    /\ last.op = "return_loan" /\ last.ret = 0
    /\ \E b \in DOMAIN books :
           /\ OpenLoansOfBook(b) # {}
           /\ \E l \in DOMAIN loans : loans[l].book_id = b /\ loans[l].is_returned = 1
           /\ books[b].available = books[b].quantity - 1

\* C33: when the return_loan calls for the same open loan have all finished
\* at most one has succeeded, the loan has exactly one Return row and the
\* book's available count has gone up by exactly one
C33_ConcurrentReturnOnce ==
    AllDone =>
        /\ Cardinality(Winners) <= 1
        /\ Cardinality(ReturnsOf(1)) = Cardinality(Winners)
        /\ Winners # {} => books[1].available = books[1].quantity
        /\ books[1].available <= books[1].quantity

\* C34: after any sequence of add/delete book, add/delete member, issue_loan
\* and return_loan every Loan row references an existing Book and an existing
\* Member and every Return row an existing Loan; delete_member fails and
\* deletes nothing when the member has a Loan row, and a book referenced by a
\* Loan cannot be deleted
C34_ReferentialIntegrity ==
    /\ \A l \in DOMAIN loans :
           /\ loans[l].book_id \in DOMAIN books
           /\ loans[l].member_id \in DOMAIN members
    /\ \A r \in DOMAIN returns : returns[r].loan_id \in DOMAIN loans
    /\ \A member_id \in MemberIds :
           loan_count(Cur.t, member_id) > 0 =>
               /\ ~delete_member_ok(Cur.t, member_id)
               /\ delete_member(Cur.t, member_id) = Cur.t
    /\ \A book_id \in BookIds :
           BookReferenced(Cur.t, book_id) =>
               /\ ~delete_book_ok(Cur.t, book_id)
               /\ delete_book(Cur.t, book_id) = Cur.t

\* delete_book has just failed on a book that a Loan references, after another
\* book and a member without loans have been deleted
C34_Witness ==
    /\ last.op = "delete_book"
    /\ last.ret = 0 - 1
    /\ \E l \in DOMAIN loans : loans[l].book_id \in DOMAIN books
    /\ Cardinality(DOMAIN books) < seq.books
    /\ Cardinality(DOMAIN members) < seq.members

\* C35: for every member, check_member_overdue reports overdue days > 0
\* exactly when check_loan_overdue reports one of the member's loans with
\* is_returned = 0 overdue, and its day count is the maximum of the per-loan
\* day counts
C35_MemberCheckAgreesWithLoanCheck ==
    \A m \in MemberIds :
        LET perLoan == {check_loan_overdue(Cur.t, l) : l \in OpenLoansOf(m)}
        IN  /\ check_member_overdue(Cur.t, m) > 0 <=> \E r \in perLoan : r.ret = 1
            /\ check_member_overdue(Cur.t, m) =
                   SetMax({0} \cup {r.overdue_days : r \in perLoan})

\* a step in which no operation is executed and the clock advances
OnlyTimePasses ==
    /\ now' > now
    /\ UNCHANGED <<books, members, loans, returns>>

\* member m is refused by issue_loan because of an overdue open loan
SuspendedForOverdue(m) ==
    /\ m \in DOMAIN members
    /\ OpenLoansOf(m) # {}
    /\ ~Eligible(m)

\* C36: while no operation is executed and only the current date advances,
\* the overdue day count of an open loan never decreases, and a member who is
\* suspended because of an overdue open loan stays ineligible for issue_loan
C36_OverdueOnlyGrows ==
    [][OnlyTimePasses =>
          /\ \A l \in DOMAIN loans :
                 IsOpen(l) => check_loan_overdue(Cur.t, l)'.overdue_days
                                  >= check_loan_overdue(Cur.t, l).overdue_days
          /\ \A m \in DOMAIN members :
                 /\ check_member_overdue(Cur.t, m)' >= check_member_overdue(Cur.t, m)
                 /\ SuspendedForOverdue(m) => SuspendedForOverdue(m)']_vars

\* the clock has just advanced over a suspended member whose open loan is two
\* days overdue
C36_Witness ==
    /\ last.op = "tick"
    /\ \E m \in DOMAIN members :
           /\ SuspendedForOverdue(m)
           /\ check_member_overdue(Cur.t, m) >= 2
           /\ \E l \in OpenLoansOf(m) : check_loan_overdue(Cur.t, l).overdue_days >= 2

\* the step is a successful issue_loan / return_loan
IssueSucceeds == last'.op = "issue_loan" /\ last'.err = "None"

ReturnSucceeds == last'.op = "return_loan" /\ last'.err = "None"

\* of the Books table only the available count of book b may change
OnlyAvailableOf(b) ==
    /\ DOMAIN books' = DOMAIN books
    /\ books'[b].quantity = books[b].quantity
    /\ \A x \in DOMAIN books : x # b => books'[x] = books[x]

\* the Loans, Returns and Books effects of a successful issue_loan
IssueFrame ==
    /\ Len(loans') = Len(loans) + 1
    /\ SubSeq(loans', 1, Len(loans)) = loans
    /\ OnlyAvailableOf(loans'[Len(loans')].book_id)
    /\ returns' = returns

\* the Loans, Returns and Books effects of a successful return_loan
ReturnFrame ==
    /\ Len(returns') = Len(returns) + 1
    /\ SubSeq(returns', 1, Len(returns)) = returns
    /\ LET loan_id == returns'[Len(returns')].loan_id
       IN  /\ loan_id \in DOMAIN loans
           /\ loans' = [loans EXCEPT ![loan_id].is_returned = loans'[loan_id].is_returned]
           /\ OnlyAvailableOf(loans[loan_id].book_id)

\* of the Members table only the penalty state of the returning member may
\* change, and only on an overdue return
OnlyPenaltyOfReturner ==
    LET member_id == loans[returns'[Len(returns')].loan_id].member_id
    IN  /\ DOMAIN members' = DOMAIN members
        /\ \A x \in DOMAIN members : x # member_id => members'[x] = members[x]
        /\ members' # members => returns'[Len(returns')].overdue_days > 0

C38_DateDiffsAgree ==
    /\ (out.op = "date_difference" /\ ValidDate(out.date1) /\ ValidDate(out.date2)) =>
           out.ret = calculate_date_diff_text(out.date1, out.date2)
    /\ (out.op = "calculate_date_diff" /\ ValidDate(out.date1) /\ ValidDate(out.date2)) =>
           date_difference_text(out.date1, out.date2) = {out.ret}
    /\ (out.op \in {"date_difference", "calculate_date_diff"}
           /\ (NotADate(out.date1) \/ NotADate(out.date2))) => out.ret = 0

====
